---- MODULE Spec2Model ----
(***************************************************************************)
(* blog-dub-ja: a four-stage subprocess pipeline (extract, translate the   *)
(* title, translate the content, synthesize speech).  The module models    *)
(* CommandRunner.run (one child process and the promise it settles), the   *)
(* stage wrappers extract / translate / generateAudio, DirectoryManager    *)
(* and the four revisions of BlogDubber.execute found in the sources:      *)
(*   "blog_dub_ja"  src/blog_dub_ja.js                                     *)
(*   "part_000"     src/unnamed/part_000                                   *)
(*   "index_1"      src/index.js lines 1-195                               *)
(*   "index_2"      src/index.js lines 196-422                             *)
(* Text is a sequence of one-character strings.                            *)
(***************************************************************************)
EXTENDS Integers, Sequences, FiniteSets, TLC

(***************************************************************************)
(* Bounds of the model.                                                    *)
(***************************************************************************)
\* the most 'data' events one child delivers
MaxChunks == 2

(***************************************************************************)
(* Text: the JavaScript string functions the sources call.                 *)
(***************************************************************************)
\* String.prototype.trim and the regular expression class \s agree on these
WhiteSpace == {" ", "\t", "\n", "\r"}

\* the line terminators of the regular expression '.' and of '^' under /m
LineTerminators == {"\n", "\r"}

IsWs(c) == c \in WhiteSpace

\* index of the first non-whitespace character at or after p, Len(s)+1 if none
RECURSIVE SkipWs(_, _)
SkipWs(s, p) ==
  IF p > Len(s) THEN Len(s) + 1
  ELSE IF IsWs(s[p]) THEN SkipWs(s, p + 1) ELSE p

\* index of the last non-whitespace character at or before p, 0 if none
RECURSIVE SkipWsBack(_, _)
SkipWsBack(s, p) ==
  IF p < 1 THEN 0
  ELSE IF IsWs(s[p]) THEN SkipWsBack(s, p - 1) ELSE p

\* s.trim()
Trim(s) == SubSeq(s, SkipWs(s, 1), SkipWsBack(s, Len(s)))

\* s.substring(a, b) with 0-based indexes: both are clamped to 0..length and
\* swapped when a > b
Substring(s, a, b) ==
  LET clamp(x) == IF x < 0 THEN 0 ELSE IF x > Len(s) THEN Len(s) ELSE x
      lo == IF clamp(a) <= clamp(b) THEN clamp(a) ELSE clamp(b)
      hi == IF clamp(a) <= clamp(b) THEN clamp(b) ELSE clamp(a)
  IN SubSeq(s, lo + 1, hi)

\* s.lastIndexOf(c): 0-based, -1 when c does not occur
LastIndexOf(s, c) ==
  LET hits == {i \in 1..Len(s) : s[i] = c}
  IN IF hits = {} THEN -1
     ELSE (CHOOSE i \in hits : \A j \in hits : j <= i) - 1

\* whether /\{\s*"/ matches at the 1-based position i
BraceQuoteAt(s, i) ==
  /\ i \in 1..Len(s)
  /\ s[i] = "{"
  /\ SkipWs(s, i + 1) <= Len(s)
  /\ s[SkipWs(s, i + 1)] = "\""

\* (variant: the quote is not required, the first opening brace is the start)
MatchBraceQuote_AnyBrace(s) ==
  LET hits == {i \in 1..Len(s) : s[i] = "{"}
  IN IF hits = {} THEN -1
     ELSE (CHOOSE i \in hits : \A j \in hits : i <= j) - 1

\* s.match(/\{\s*"/): the 0-based index of the leftmost match, -1 for no match
MatchBraceQuote(s) ==
  LET hits == {i \in 1..Len(s) : BraceQuoteAt(s, i)}
  IN IF hits = {} THEN -1
     ELSE (CHOOSE i \in hits : \A j \in hits : i <= j) - 1

\* whether the text p occurs in s at the 1-based position i
OccursAt(s, p, i) ==
  /\ i >= 1
  /\ i + Len(p) - 1 <= Len(s)
  /\ SubSeq(s, i, i + Len(p) - 1) = p

\* concatenation of a sequence of texts
RECURSIVE Concat(_)
Concat(ss) == IF ss = <<>> THEN <<>> ELSE Head(ss) \o Concat(Tail(ss))

(***************************************************************************)
(* JavaScript values as the pipeline meets them: what JSON.parse returns   *)
(* and the property reads, truthiness tests and template literals applied  *)
(* to it.                                                                  *)
(***************************************************************************)
Str(s) == [t |-> "string", s |-> s]
Num(s) == [t |-> "number", s |-> s]
Lit(name) == [t |-> name, s |-> <<>>]
Obj(m) == [t |-> "object", s |-> <<>>, m |-> m]
Undefined == Lit("undefined")
Null == Lit("null")

Digits == {"0", "1", "2", "3", "4", "5", "6", "7", "8", "9"}

NoParse == [ok |-> FALSE, pos |-> 0, v |-> Undefined]

\* a JSON string starting at its opening quote p: raw control characters end
\* the parse, the two-character escapes are decoded (\uXXXX is not modelled)
RECURSIVE ParseStringBody(_, _, _)
ParseStringBody(s, p, acc) ==
  IF p > Len(s) THEN NoParse
  ELSE IF s[p] = "\"" THEN [ok |-> TRUE, pos |-> p + 1, v |-> Str(acc)]
  ELSE IF s[p] \in {"\n", "\r", "\t"} THEN NoParse
  ELSE IF s[p] = "\\"
    THEN IF p + 1 > Len(s) THEN NoParse
         ELSE IF s[p + 1] \in {"\"", "\\", "/"}
           THEN ParseStringBody(s, p + 2, Append(acc, s[p + 1]))
         ELSE IF s[p + 1] = "n" THEN ParseStringBody(s, p + 2, Append(acc, "\n"))
         ELSE IF s[p + 1] = "t" THEN ParseStringBody(s, p + 2, Append(acc, "\t"))
         ELSE IF s[p + 1] = "r" THEN ParseStringBody(s, p + 2, Append(acc, "\r"))
         ELSE NoParse
  ELSE ParseStringBody(s, p + 1, Append(acc, s[p]))

\* the end of the run of digits starting at p
RECURSIVE DigitsEnd(_, _)
DigitsEnd(s, p) ==
  IF p <= Len(s) /\ s[p] \in Digits THEN DigitsEnd(s, p + 1) ELSE p

\* a JSON integer at p: 0, or a non-zero digit followed by digits
ParseNumber(s, p) ==
  LET e == IF s[p] = "0" THEN p + 1 ELSE DigitsEnd(s, p)
  IN [ok |-> TRUE, pos |-> e, v |-> Num(SubSeq(s, p, e - 1))]

ParseLiteral(s, p) ==
  IF OccursAt(s, <<"t", "r", "u", "e">>, p)
    THEN [ok |-> TRUE, pos |-> p + 4, v |-> Lit("true")]
  ELSE IF OccursAt(s, <<"f", "a", "l", "s", "e">>, p)
    THEN [ok |-> TRUE, pos |-> p + 5, v |-> Lit("false")]
  ELSE IF OccursAt(s, <<"n", "u", "l", "l">>, p)
    THEN [ok |-> TRUE, pos |-> p + 4, v |-> Null]
  ELSE NoParse

RECURSIVE ParseValue(_, _)
RECURSIVE ParseMembers(_, _, _)

\* the members of an object, p at the first character after '{' or ','
ParseMembers(s, p, acc) ==
  LET kq == SkipWs(s, p)
  IN IF kq > Len(s) \/ s[kq] # "\"" THEN NoParse
     ELSE LET k == ParseStringBody(s, kq + 1, <<>>)
          IN IF ~k.ok THEN NoParse
             ELSE LET c == SkipWs(s, k.pos)
                  IN IF c > Len(s) \/ s[c] # ":" THEN NoParse
                     ELSE LET val == ParseValue(s, c + 1)
                          IN IF ~val.ok THEN NoParse
                             ELSE LET m == Append(acc, [k |-> k.v.s, v |-> val.v])
                                      n == val.pos
                                  IN IF n > Len(s) THEN NoParse
                                     ELSE IF s[n] = "}"
                                       THEN [ok |-> TRUE, pos |-> n + 1, v |-> Obj(m)]
                                     ELSE IF s[n] = ","
                                       THEN ParseMembers(s, n + 1, m)
                                     ELSE NoParse

\* a JSON value with the whitespace around it, from p
ParseValue(s, p) ==
  LET q == SkipWs(s, p)
      r == IF q > Len(s) THEN NoParse
           ELSE IF s[q] = "{"
             THEN LET e == SkipWs(s, q + 1)
                  IN IF e <= Len(s) /\ s[e] = "}"
                       THEN [ok |-> TRUE, pos |-> e + 1, v |-> Obj(<<>>)]
                       ELSE ParseMembers(s, q + 1, <<>>)
           ELSE IF s[q] = "\"" THEN ParseStringBody(s, q + 1, <<>>)
           ELSE IF s[q] \in Digits THEN ParseNumber(s, q)
           ELSE ParseLiteral(s, q)
  IN IF r.ok THEN [r EXCEPT !.pos = SkipWs(s, r.pos)] ELSE NoParse

\* JSON.parse(s): ok is FALSE where it throws a SyntaxError
JSONParse(s) ==
  LET r == ParseValue(s, 1)
  IN IF r.ok /\ r.pos = Len(s) + 1 THEN [ok |-> TRUE, v |-> r.v]
     ELSE [ok |-> FALSE, v |-> Undefined]

\* v[key] for a value JSON.parse returned: the last member of that name of an
\* object, undefined for a primitive (null has no properties: see CanRead)
GetProp(v, key) ==
  IF v.t # "object" THEN Undefined
  ELSE LET hits == {i \in 1..Len(v.m) : v.m[i].k = key}
       IN IF hits = {} THEN Undefined
          ELSE v.m[CHOOSE i \in hits : \A j \in hits : j <= i].v

\* reading a property of null or undefined throws a TypeError
CanRead(v) == v.t \notin {"null", "undefined"}

\* !v is false
Truthy(v) ==
  CASE v.t = "string" -> v.s # <<>>
    [] v.t = "number" -> v.s # <<"0">>
    [] v.t \in {"object", "true"} -> TRUE
    [] OTHER -> FALSE

\* `${v}`
ToText(v) ==
  CASE v.t \in {"string", "number"} -> v.s
    [] v.t = "object" ->
         <<"[", "o", "b", "j", "e", "c", "t", " ", "O", "b", "j", "e", "c", "t", "]">>
    [] v.t = "true" -> <<"t", "r", "u", "e">>
    [] v.t = "false" -> <<"f", "a", "l", "s", "e">>
    [] v.t = "null" -> <<"n", "u", "l", "l">>
    [] OTHER -> <<"u", "n", "d", "e", "f", "i", "n", "e", "d">>

\* output.replace(/^\[dotenv@.+/gm, ''): at each line start where the banner
\* prefix is followed by at least one character of the same line, the rest of
\* the line (its terminator excluded) is removed
Banner == <<"[", "d", "o", "t", "e", "n", "v", "@">>

\* the index of the first line terminator at or after p, Len(s)+1 if none
RECURSIVE LineEnd(_, _)
LineEnd(s, p) ==
  IF p > Len(s) THEN Len(s) + 1
  ELSE IF s[p] \in LineTerminators THEN p ELSE LineEnd(s, p + 1)

\* (variant: no /m flag, only the start of the text is a line start)
BannerAt_FirstLineOnly(s, p) ==
  /\ p = 1
  /\ OccursAt(s, Banner, p)
  /\ p + Len(Banner) <= Len(s)
  /\ s[p + Len(Banner)] \notin LineTerminators


BannerAt(s, p) ==
  /\ p = 1 \/ s[p - 1] \in LineTerminators
  /\ OccursAt(s, Banner, p)
  /\ p + Len(Banner) <= Len(s)
  /\ s[p + Len(Banner)] \notin LineTerminators

RECURSIVE RemoveBanners(_, _, _)
RemoveBanners(s, p, acc) ==
  IF p > Len(s) THEN acc
  ELSE IF BannerAt(s, p) THEN RemoveBanners(s, LineEnd(s, p), acc)
  ELSE RemoveBanners(s, p + 1, Append(acc, s[p]))

(***************************************************************************)
(* CommandRunner.run: one child process and the promise it settles.        *)
(***************************************************************************)
NoError == [msg |-> "", reason |-> "", code |-> 0]

\* new Error(`Failed to start process: ${err.message}`)
SpawnError(reason) ==
  [msg |-> "Failed to start process: ", reason |-> reason, code |-> 0]

\* new Error(`Process exited with code ${code}`)
ExitError(code) ==
  [msg |-> "Process exited with code ", reason |-> "", code |-> code]

\* inputBody.trim is not a function: a truthy body that is no string
BodyTypeError ==
  [msg |-> "TypeError: inputBody.trim is not a function", reason |-> "", code |-> 0]

NoValue == [kind |-> "none", text |-> <<>>]
TextValue(s) == [kind |-> "text", text |-> s]
TrueValue == [kind |-> "true", text |-> <<>>]
UndefinedValue == [kind |-> "undefined", text |-> <<>>]

\* An invocation: the child as the operating system sees it (spawned, alive,
\* stdin, and the events it has emitted: chunks, errored/reason, closed/code)
\* and run's own state (capture, outputData, the promise: settled, value,
\* error).
NoInv ==
  [stage |-> "none", spawned |-> FALSE, alive |-> FALSE, capture |-> FALSE,
   body |-> Null, stdin |-> <<>>, outputData |-> <<>>, chunks |-> <<>>,
   errored |-> FALSE, reason |-> "", closed |-> FALSE, code |-> 0,
   settled |-> "pending", value |-> NoValue, error |-> NoError]

\* resolve(v) and reject(e) of a promise: the first call settles it, every
\* later call does nothing
\* (variant: a later resolve overrides an earlier settlement)
Resolve_LastWins(i, v) ==
  [i EXCEPT !.settled = "resolved", !.value = v, !.error = NoError]

Resolve(i, v) ==
  IF i.settled = "pending" THEN [i EXCEPT !.settled = "resolved", !.value = v]
  ELSE i

Reject(i, e) ==
  IF i.settled = "pending" THEN [i EXCEPT !.settled = "rejected", !.error = e]
  ELSE i

\* if (inputBody && inputBody.trim().length > 0) child.stdin.write(inputBody);
\* child.stdin.end();   -- a truthy body without trim() throws before end()
\* (variant: the trim() test dropped, any truthy body is written)
FeedStdin_AnyTruthyBody(i, body) ==
  IF ~Truthy(body) THEN [i EXCEPT !.stdin = <<[op |-> "end", body |-> <<>>]>>]
  ELSE [i EXCEPT !.stdin = <<[op |-> "write", body |-> body.s],
                             [op |-> "end", body |-> <<>>]>>]

FeedStdin(i, body) ==
  IF ~Truthy(body) THEN [i EXCEPT !.stdin = <<[op |-> "end", body |-> <<>>]>>]
  ELSE IF body.t # "string" THEN Reject(i, BodyTypeError)
  ELSE IF Len(Trim(body.s)) > 0
    THEN [i EXCEPT !.stdin = <<[op |-> "write", body |-> body.s],
                               [op |-> "end", body |-> <<>>]>>]
  ELSE [i EXCEPT !.stdin = <<[op |-> "end", body |-> <<>>]>>]

\* the synchronous part of run(command, args, inputBody, captureOutput): the
\* child is spawned, the listeners are registered, stdin is fed and ended
RunStart(stage, body, captureOutput) ==
  FeedStdin([NoInv EXCEPT !.stage = stage, !.spawned = TRUE, !.alive = TRUE,
                          !.capture = captureOutput, !.body = body],
            body)

\* child.stdout.on('data', chunk => { outputData += chunk.toString(); })
OnData(i, chunk) == [i EXCEPT !.outputData = @ \o chunk]

\* child.on('error', err => reject(new Error(...)))
\* (variant: the reason of the event is dropped from the message)
OnError_NoReason(i, reason) == Reject(i, SpawnError(""))

OnError(i, reason) == Reject(i, SpawnError(reason))

\* child.on('close', code => code !== 0 ? reject(...) : resolve(...))
\* (variants: the code is not tested; the captured text is not trimmed)
OnClose_IgnoreCode(i, code) ==
  Resolve(i, IF i.capture THEN TextValue(Trim(i.outputData)) ELSE TrueValue)

OnClose_NoTrim(i, code) ==
  IF code # 0 THEN Reject(i, ExitError(code))
  ELSE Resolve(i, IF i.capture THEN TextValue(i.outputData) ELSE TrueValue)

OnClose(i, code) ==
  IF code # 0 THEN Reject(i, ExitError(code))
  ELSE Resolve(i, IF i.capture THEN TextValue(Trim(i.outputData)) ELSE TrueValue)

\* what the operating system records of the three events
SawData(i, chunk) == [i EXCEPT !.chunks = Append(@, chunk)]
SawError(i, reason) == [i EXCEPT !.errored = TRUE, !.reason = reason]
SawClose(i, code) == [i EXCEPT !.closed = TRUE, !.code = code, !.alive = FALSE]

(***************************************************************************)
(* Paths and DirectoryManager.  A path is a directory name, the timestamp  *)
(* embedded in it (0: none), and for a file its name and the timestamp     *)
(* embedded in that.                                                       *)
(***************************************************************************)
DirPath(d, ts) == [dir |-> d, dts |-> ts, file |-> "", fts |-> 0]
FilePath(parent, f, ts) == [parent EXCEPT !.file = f, !.fts = ts]
NoPath == DirPath("", 0)

\* path.dirname(p)
Dirname(p) == [p EXCEPT !.file = "", !.fts = 0]

\* path.join(p, sub)
Join(p, sub) == [p EXCEPT !.dir = @ \o "/" \o sub]

\* CONFIG.OUTPUT_DIR / config.OUTPUT_DIR
BaseOutputDir == DirPath("outputs", 0)

\* path.resolve of the caller's --txt-output, --mp3-output and --debug-dir
ExplicitTxt == FilePath(DirPath("txtdir", 0), "out.txt", 0)
ExplicitMp3 == FilePath(DirPath("mp3dir", 0), "out.mp3", 0)
ExplicitDebug == DirPath("dbgdir", 0)

\* the DirectoryManager after its constructor
NewDirManager ==
  [projectDir |-> NoPath, debugRoot |-> NoPath, hasDirs |-> FALSE, timestamp |-> 0]

\* initializeProject: projectDir is set, the timestamp is read from the clock
InitializeProject(d, now) ==
  [d EXCEPT !.projectDir = Join(BaseOutputDir, "project"), !.timestamp = now]

\* the directories initializeProject makes sure exist
ProjectDirs == {BaseOutputDir, Join(BaseOutputDir, "project")}

\* setupDebugDirectories(isDebug) of blog_dub_ja.js and part_000
SetupDebugAuto(d, isDebug) ==
  IF ~isDebug THEN d
  ELSE [d EXCEPT !.debugRoot = [Join(d.projectDir, "debug") EXCEPT !.dts = d.timestamp],
                 !.hasDirs = TRUE]

\* setupDebugDirectories(debugPath) of index.js, first revision
SetupDebugExplicit(d, hasDebugPath) ==
  IF ~hasDebugPath THEN d
  ELSE [d EXCEPT !.debugRoot = ExplicitDebug, !.hasDirs = TRUE]

\* the keys and directory names of this.dirs
DebugSub ==
  [extract |-> "extract-readability",
   translateTitle |-> "translate-to-ja-title",
   translateContent |-> "translate-to-ja-content",
   synthesize |-> "text-to-speech"]

\* getDebugPath(key): this.dirs[key] || null
\* (variant: every stage is given the debug root itself)
GetDebugPath_Root(d, key) == IF d.hasDirs THEN d.debugRoot ELSE NoPath

GetDebugPath(d, key) ==
  IF d.hasDirs THEN Join(d.debugRoot, DebugSub[key]) ELSE NoPath

\* generateOutputFilename(projectName, extension)
GenerateOutputFilename(d, extension) ==
  FilePath(d.projectDir, "project." \o extension, d.timestamp)

(***************************************************************************)
(* The stage wrappers.                                                     *)
(***************************************************************************)
\* new Error(`Extraction failed: ${e.message}`)
ExtractionFailed(message) ==
  [msg |-> "Extraction failed: " \o message, reason |-> "", code |-> 0]

\* the try block of extract, applied to the captured output
\* (variant: no throw on a missing boundary, an empty article instead)
ExtractParse_NoBoundaryCheck(rawOutput) ==
  LET jsonStart == MatchBraceQuote(rawOutput)
      jsonEnd == LastIndexOf(rawOutput, "}")
      parsed == JSONParse(Substring(rawOutput, jsonStart, jsonEnd + 1))
  IN IF jsonStart = -1 \/ jsonEnd = -1
       THEN [ok |-> TRUE, v |-> Obj(<<>>), error |-> NoError]
     ELSE IF parsed.ok THEN [ok |-> TRUE, v |-> parsed.v, error |-> NoError]
     ELSE [ok |-> FALSE, v |-> Undefined,
           error |-> ExtractionFailed("SyntaxError")]

\* rawOutput.substring(jsonStart, jsonEnd + 1): the text JSON.parse is given
JsonText(rawOutput) ==
  Substring(rawOutput, MatchBraceQuote(rawOutput), LastIndexOf(rawOutput, "}") + 1)

ExtractParse(rawOutput) ==
  LET jsonStart == MatchBraceQuote(rawOutput)
      jsonEnd == LastIndexOf(rawOutput, "}")
      parsed == JSONParse(JsonText(rawOutput))
  IN IF jsonStart = -1 \/ jsonEnd = -1
       THEN [ok |-> FALSE, v |-> Undefined,
             error |-> ExtractionFailed("JSON not found in output")]
     ELSE IF parsed.ok THEN [ok |-> TRUE, v |-> parsed.v, error |-> NoError]
     ELSE [ok |-> FALSE, v |-> Undefined,
           error |-> ExtractionFailed("SyntaxError")]

\* `Translate this title to Japanese: ${article.title}`
TitleInstruction ==
  <<"T", "r", "a", "n", "s", "l", "a", "t", "e", " ", "t", "h", "i", "s", " ",
    "t", "i", "t", "l", "e", " ", "t", "o", " ", "J", "a", "p", "a", "n", "e",
    "s", "e", ":", " ">>

\* (variant: the bare title is passed, without the instruction)
TitlePrompt_Bare(article) == GetProp(article, <<"t", "i", "t", "l", "e">>)

TitlePrompt(article) ==
  Str(TitleInstruction \o ToText(GetProp(article, <<"t", "i", "t", "l", "e">>)))

\* article.content
ContentOf(article) == GetProp(article, <<"c", "o", "n", "t", "e", "n", "t">>)

\* a call that returned without spawning: the invocation is settled at once
Returned(stage, v) == Resolve([NoInv EXCEPT !.stage = stage], v)

\* translate(text, debugPath) up to its await
\* (variant: the empty-input test dropped)
Translate_NoEmptyCheck(stage, text) == RunStart(stage, text, TRUE)

Translate(stage, text) ==
  IF ~Truthy(text) THEN Returned(stage, TextValue(<<>>))
  ELSE RunStart(stage, text, TRUE)

\* what translate returns once its invocation has resolved
TranslateResult(i) ==
  IF i.spawned THEN Trim(RemoveBanners(i.value.text, 1, <<>>)) ELSE i.value.text

\* generateAudio(text, outputPath, debugPath)
\* (variant: the empty-text test dropped)
GenerateAudio_NoEmptyCheck(text) == RunStart("synthesize", Str(text), FALSE)

GenerateAudio(text) ==
  IF ~Truthy(Str(text)) THEN Returned("synthesize", UndefinedValue)
  ELSE RunStart("synthesize", Str(text), FALSE)

\* `Title: ${titleJa}\n\n${contentJa}`
TextData(tJa, cJa) ==
  <<"T", "i", "t", "l", "e", ":", " ">> \o tJa \o <<"\n", "\n">> \o cJa

(***************************************************************************)
(* The inputs the environment chooses.                                     *)
(***************************************************************************)
Revisions == {"blog_dub_ja", "part_000", "index_1", "index_2"}

\* process.argv / commander's options: url (the positional argument is
\* there), debug (--debug, -d or --debug-dir), txt and mp3 (--txt-output and
\* --mp3-output).  commander rejects a missing <url> and a missing required
\* option before execute is called.
OptionSets(r) ==
  CASE r = "blog_dub_ja" ->
         [url : BOOLEAN, debug : BOOLEAN, txt : {FALSE}, mp3 : {FALSE}]
    [] r = "part_000" ->
         [url : {TRUE}, debug : BOOLEAN, txt : {FALSE}, mp3 : {FALSE}]
    [] r = "index_1" ->
         [url : {TRUE}, debug : BOOLEAN, txt : {TRUE}, mp3 : {TRUE}]
    [] OTHER ->
         [url : {TRUE}, debug : BOOLEAN, txt : BOOLEAN, mp3 : BOOLEAN]

\* the file system before the job: empty, or what an earlier run left behind
OldDebug == [Join(Join(BaseOutputDir, "project"), "debug") EXCEPT !.dts = 0]
OldText == FilePath(Join(BaseOutputDir, "project"), "project.txt", 0)
EarlierRun ==
  ProjectDirs \cup {OldDebug, OldText, ExplicitDebug, Dirname(ExplicitTxt),
                    Dirname(ExplicitMp3), ExplicitTxt}
InitialFileSystems == {{}, EarlierRun}

\* the codes a child closes with and the reasons it fails to start with
ExitCodes == {0, 1, 2}
SpawnReasons == {"ENOENT", "EACCES"}

\* what the extraction tool writes to its standard output, chunk by chunk
ChunkLog == <<"{", "x", "}", "\n">>
ChunkArticle ==
  <<"{", " ", "\"", "t", "i", "t", "l", "e", "\"", ":", "\"", "T", "\"", ",",
    "\"", "c", "o", "n", "t", "e", "n", "t", "\"", ":", "\"", "C", "\"", "}">>
ChunkEmptyArticle ==
  <<"{", "\"", "t", "i", "t", "l", "e", "\"", ":", "\"", "\"", ",",
    "\"", "c", "o", "n", "t", "e", "n", "t", "\"", ":", "\"", "\"", "}", "\n">>
ChunkNoTitle ==
  <<"{", "\"", "c", "o", "n", "t", "e", "n", "t", "\"", ":", "\"", " ", "\"", "}">>
ChunkNumericContent ==
  <<"{", "\"", "c", "o", "n", "t", "e", "n", "t", "\"", ":", "7", "}">>
ChunkTail == <<"x", "}">>
ChunkOpen == <<"{", " ", "\"">>
ExtractChunks ==
  {ChunkLog, ChunkArticle, ChunkEmptyArticle, ChunkNoTitle, ChunkNumericContent,
   ChunkTail, ChunkOpen}

\* what the translation tool writes to its standard output
ChunkJa == <<"J", "\n">>
ChunkBanner == Banner \o <<"1", "\n">>
ChunkSpace == <<" ">>
TranslateChunks == {ChunkJa, ChunkBanner, ChunkSpace}

StageChunks(stage) ==
  IF stage = "extract" THEN ExtractChunks ELSE TranslateChunks

\* the bodies and chunks CommandRunner.run is exercised with on its own
RunBodies ==
  {Null, Str(<<>>), Str(<<" ">>), Str(<<"\n", " ">>), Str(<<"a">>),
   Str(<<" ", "a", "\n">>)}
RunChunks == {<<" ", "a">>, <<"b", "\n">>, <<" ">>}

(***************************************************************************)
(* State.                                                                  *)
(***************************************************************************)
VARIABLES
  rev,        \* which revision of the orchestrator runs
  opts,       \* the command line
  pc,         \* "init", the stage whose invocation execute awaits, "done";
              \* "harness" / "run" when run is exercised on its own;
              \* "call" / "returned" when one function is
  exited,     \* the process has ended
  exitCode,   \* with this code
  inv,        \* the invocation execute awaits (NoInv before the first)
  spawned,    \* every spawn() so far: stage, --debug-dir, -o
  article,    \* what extract returned
  titleJa,    \* what the two translate calls returned
  contentJa,
  dm,         \* the DirectoryManager
  fs,         \* the paths that exist
  writes,     \* every writeFileSync so far: path, data
  out,        \* console.log: the primary output stream
  err,        \* console.error: the error stream
  caught,     \* the error the catch block of execute received
  clock,      \* the wall clock, in seconds
  arg,        \* a function exercised on its own: its argument
  ret         \* and what it returned

vars ==
  <<rev, opts, pc, exited, exitCode, inv, spawned, article, titleJa,
    contentJa, dm, fs, writes, out, err, caught, clock, arg, ret>>

\* the longest the wall clock runs
MaxClock == 2

Stages == <<"extract", "translateTitle", "translateContent", "synthesize">>

StageIndex(stage) == CHOOSE k \in 1..Len(Stages) : Stages[k] = stage

InitCommon ==
  /\ exited = FALSE
  /\ exitCode = 0
  /\ inv = NoInv
  /\ spawned = <<>>
  /\ article = Undefined
  /\ titleJa = <<>>
  /\ contentJa = <<>>
  /\ dm = NewDirManager
  /\ writes = <<>>
  /\ out = <<>>
  /\ err = <<>>
  /\ caught = NoError
  /\ clock = 1

Init ==
  /\ rev \in Revisions
  /\ opts \in OptionSets(rev)
  /\ fs \in InitialFileSystems
  /\ pc = "init"
  /\ arg = <<>>
  /\ ret = <<>>
  /\ InitCommon

(***************************************************************************)
(* BlogDubber.execute, one action per stretch of code between two awaits.  *)
(***************************************************************************)
\* await: execute goes on once the promise it awaits is settled
\* (variant: the await dropped, execute goes on at once)
Settled_NoAwait(i) == TRUE

Settled(i) == i.settled # "pending"

\* fs.writeFileSync(textPath, textData)
\* (variant: the write dropped)
WriteFileSync_Skipped(w, path, data) == w

WriteFileSync(w, path, data) == Append(w, [path |-> path, data |-> data])

\* catch (error) { console.error('Error:', error.message); process.exit(1); }
Catch(e) ==
  /\ caught' = e
  /\ err' = Append(err, "error")
  /\ exited' = TRUE
  /\ exitCode' = 1

\* one spawn() as the log records it
SpawnEntry(stage, d, outPath) ==
  [stage |-> stage, debugDir |-> GetDebugPath(d, stage), out |-> outPath]

\* the log after a call that may have spawned
\* (variant: the call spawns its command twice)
Logged_Twice(i, d, outPath) ==
  IF i.spawned
    THEN spawned \o <<SpawnEntry(i.stage, d, outPath), SpawnEntry(i.stage, d, outPath)>>
  ELSE spawned

Logged(i, d, outPath) ==
  IF i.spawned THEN Append(spawned, SpawnEntry(i.stage, d, outPath)) ELSE spawned

\* const article = await this.extract(...): the call, up to the await in run
CallExtract(d) ==
  /\ inv' = RunStart("extract", Null, TRUE)
  /\ spawned' = Logged(inv', d, NoPath)
  /\ pc' = "extract"

\* the file system after initializeProject: the base and project directories
\* are made where they are missing, nothing is removed
\* (variant: the project directory of an earlier run is removed first)
MkdirProject_Wipe(f) == (f \ {OldDebug, OldText}) \cup ProjectDirs

MkdirProject(f) == f \cup ProjectDirs

\* src/blog_dub_ja.js: execute() from its first line to the first await
Execute_blog_dub_ja ==
  /\ rev = "blog_dub_ja" /\ pc = "init" /\ ~exited
  /\ IF ~opts.url
       THEN /\ err' = Append(err, "usage")
            /\ exited' = TRUE
            /\ exitCode' = 1
            /\ UNCHANGED <<pc, inv, spawned, dm, fs, caught>>
       ELSE /\ dm' = SetupDebugAuto(InitializeProject(dm, clock), opts.debug)
            /\ fs' = MkdirProject(fs)
                        \cup (IF opts.debug THEN {dm'.debugRoot} ELSE {})
            /\ err' = err \o <<"dir", "phase1", "exec">>
            /\ CallExtract(dm')
            /\ UNCHANGED <<exited, exitCode, caught>>
  /\ UNCHANGED <<arg, ret, rev, opts, article, titleJa, contentJa, writes, out, clock>>

\* src/unnamed/part_000: execute(targetUrl, outputName, isDebug)
Execute_part_000 ==
  /\ rev = "part_000" /\ pc = "init" /\ ~exited
  /\ dm' = SetupDebugAuto(InitializeProject(dm, clock), opts.debug)
  /\ fs' = MkdirProject(fs) \cup (IF opts.debug THEN {dm'.debugRoot} ELSE {})
  /\ err' = err \o <<"dir", "phase1", "exec">>
  /\ CallExtract(dm')
  /\ UNCHANGED <<arg, ret, rev, opts, exited, exitCode, article, titleJa, contentJa,
                 writes, out, caught, clock>>

\* src/index.js, first revision: execute(targetUrl, debugPath)
Execute_index_1 ==
  /\ rev = "index_1" /\ pc = "init" /\ ~exited
  /\ dm' = SetupDebugExplicit(dm, opts.debug)
  /\ fs' = fs \cup (IF opts.debug THEN {ExplicitDebug} ELSE {})
  /\ err' = err \o (IF opts.debug THEN <<"debug">> ELSE <<>>) \o <<"phase1", "exec">>
  /\ CallExtract(dm')
  /\ UNCHANGED <<arg, ret, rev, opts, exited, exitCode, article, titleJa, contentJa,
                 writes, out, caught, clock>>

\* new ReferenceError: execute names debugPath, which no scope defines
DebugPathNotDefined ==
  [msg |-> "debugPath is not defined", reason |-> "", code |-> 0]

\* src/index.js, second revision: execute(targetUrl, outputName, isDebug).
\* initializeProject runs; evaluating the argument of
\* setupDebugDirectories(debugPath) throws, and the catch block ends the job
Execute_index_2 ==
  /\ rev = "index_2" /\ pc = "init" /\ ~exited
  /\ dm' = InitializeProject(dm, clock)
  /\ fs' = MkdirProject(fs)
  /\ caught' = DebugPathNotDefined
  /\ err' = err \o <<"dir", "error">>
  /\ exited' = TRUE
  /\ exitCode' = 1
  /\ UNCHANGED <<arg, ret, rev, opts, pc, inv, spawned, article, titleJa, contentJa,
                 writes, out, clock>>

\* the text and audio paths of each revision
\* (variant: the text file name is stamped with the time of the write)
TextPath_Restamped(r, o, d) ==
  CASE r \in {"blog_dub_ja", "part_000"} ->
         FilePath(d.projectDir, "project.txt", clock)
    [] r = "index_1" -> ExplicitTxt
    [] OTHER -> IF o.txt THEN ExplicitTxt
                ELSE FilePath(d.projectDir, "project.txt", clock)

TextPath(r, o, d) ==
  CASE r \in {"blog_dub_ja", "part_000"} -> GenerateOutputFilename(d, "txt")
    [] r = "index_1" -> ExplicitTxt
    [] OTHER -> IF o.txt THEN ExplicitTxt ELSE GenerateOutputFilename(d, "txt")

AudioPath(r, o, d) ==
  CASE r \in {"blog_dub_ja", "part_000"} -> GenerateOutputFilename(d, "mp3")
    [] r = "index_1" -> ExplicitMp3
    [] OTHER -> IF o.mp3 THEN ExplicitMp3 ELSE GenerateOutputFilename(d, "mp3")

\* if (!fs.existsSync(dir)) fs.mkdirSync(dir, { recursive: true }): only the
\* first revision of index.js creates the parent of an output path
\* (variant: no revision creates it)
MkdirParent_None(r, p) == {}

MkdirParent(r, p) == IF r = "index_1" THEN {Dirname(p)} ELSE {}

\* fs.writeFileSync throws when the parent directory is missing
NoSuchDirectory == [msg |-> "ENOENT: no such file or directory", reason |-> "", code |-> 0]

\* reading article.title of null
TitleOfNull ==
  [msg |-> "TypeError: Cannot read properties of null", reason |-> "", code |-> 0]

\* from the extraction's settlement to the await of the title translation
ResumeExtract ==
  /\ pc = "extract" /\ ~exited /\ Settled(inv)
  /\ LET r == ExtractParse(inv.value.text)
     IN IF inv.settled = "rejected"
          THEN Catch(inv.error) /\ UNCHANGED <<pc, inv, spawned, article>>
        ELSE IF ~r.ok
          THEN Catch(r.error) /\ UNCHANGED <<pc, inv, spawned, article>>
        ELSE IF ~CanRead(r.v)
          THEN Catch(TitleOfNull) /\ article' = r.v /\ UNCHANGED <<pc, inv, spawned>>
        ELSE /\ article' = r.v
             /\ inv' = Translate("translateTitle", TitlePrompt(r.v))
             /\ spawned' = Logged(inv', dm, NoPath)
             /\ pc' = "translateTitle"
             /\ err' = err \o <<"title", "phase2", "exec">>
             /\ UNCHANGED <<exited, exitCode, caught>>
  /\ UNCHANGED <<arg, ret, rev, opts, titleJa, contentJa, dm, fs, writes, out, clock>>

\* from the title translation's settlement to the await of the content
\* translation
ResumeTranslateTitle ==
  /\ pc = "translateTitle" /\ ~exited /\ Settled(inv)
  /\ IF inv.settled = "rejected"
       THEN Catch(inv.error) /\ UNCHANGED <<pc, inv, spawned, titleJa>>
       ELSE /\ titleJa' = TranslateResult(inv)
            /\ inv' = Translate("translateContent", ContentOf(article))
            /\ spawned' = Logged(inv', dm, NoPath)
            /\ pc' = "translateContent"
            /\ err' = err \o <<"phase3">> \o (IF inv'.spawned THEN <<"exec">> ELSE <<>>)
            /\ UNCHANGED <<exited, exitCode, caught>>
  /\ UNCHANGED <<arg, ret, rev, opts, article, contentJa, dm, fs, writes, out, clock>>

\* from the content translation's settlement to the await of the synthesis:
\* the text file is written here
ResumeTranslateContent ==
  /\ pc = "translateContent" /\ ~exited /\ Settled(inv)
  /\ LET cJa == TranslateResult(inv)
         textPath == TextPath(rev, opts, dm)
         audioPath == AudioPath(rev, opts, dm)
         fs1 == fs \cup MkdirParent(rev, textPath)
     IN IF inv.settled = "rejected"
          THEN Catch(inv.error)
               /\ UNCHANGED <<pc, inv, spawned, contentJa, fs, writes>>
        ELSE IF Dirname(textPath) \notin fs1
          THEN Catch(NoSuchDirectory) /\ contentJa' = cJa /\ fs' = fs1
               /\ UNCHANGED <<pc, inv, spawned, writes>>
        ELSE /\ contentJa' = cJa
             /\ writes' = WriteFileSync(writes, textPath, TextData(titleJa, cJa))
             /\ fs' = fs1 \cup {textPath} \cup MkdirParent(rev, audioPath)
             /\ inv' = GenerateAudio(cJa)
             /\ spawned' = Logged(inv', dm, audioPath)
             /\ pc' = "synthesize"
             /\ err' = err \o <<"save", "phase4">>
                           \o (IF inv'.spawned THEN <<"exec">> ELSE <<>>)
             /\ UNCHANGED <<exited, exitCode, caught>>
  /\ UNCHANGED <<arg, ret, rev, opts, article, titleJa, dm, out, clock>>

\* the revisions that console.log(audioPath)
PrintsAudioPath(r) == r \in {"part_000", "index_2"}

\* console.log(audioPath) at the end of the try block, where the revision has it
\* (variant: the path is printed a second time)
ConsoleLog_Twice(o, r, path) ==
  IF PrintsAudioPath(r) THEN Append(Append(o, path), path) ELSE o

ConsoleLog(o, r, path) == IF PrintsAudioPath(r) THEN Append(o, path) ELSE o

\* from the synthesis's settlement to the end of execute
ResumeSynthesize ==
  /\ pc = "synthesize" /\ ~exited /\ Settled(inv)
  /\ IF inv.settled = "rejected"
       THEN Catch(inv.error) /\ UNCHANGED <<pc, out>>
       ELSE /\ err' = err \o <<"done", "paths">>
            /\ out' = ConsoleLog(out, rev, AudioPath(rev, opts, dm))
            /\ pc' = "done"
            /\ exited' = TRUE
            /\ exitCode' = 0
            /\ UNCHANGED caught
  /\ UNCHANGED <<arg, ret, rev, opts, inv, spawned, article, titleJa, contentJa, dm, fs,
                 writes, clock>>

(***************************************************************************)
(* The child's events.  In the pipeline the continuation of execute runs   *)
(* as a microtask right after the event that settles the promise, so no    *)
(* further event is delivered before it; on its own, run keeps receiving   *)
(* the events of a child whose promise is settled.                         *)
(***************************************************************************)
Deliverable == ~exited /\ inv.alive /\ (pc = "run" \/ inv.settled = "pending")

ChildData ==
  /\ Deliverable /\ inv.capture /\ Len(inv.chunks) < MaxChunks
  /\ \E chunk \in (IF pc = "run" THEN RunChunks ELSE StageChunks(inv.stage)) :
       inv' = SawData(OnData(inv, chunk), chunk)
  /\ UNCHANGED <<arg, ret, rev, opts, pc, exited, exitCode, spawned, article, titleJa,
                 contentJa, dm, fs, writes, out, err, caught, clock>>

ChildError ==
  /\ Deliverable /\ ~inv.errored
  /\ \E reason \in SpawnReasons : inv' = SawError(OnError(inv, reason), reason)
  /\ UNCHANGED <<arg, ret, rev, opts, pc, exited, exitCode, spawned, article, titleJa,
                 contentJa, dm, fs, writes, out, err, caught, clock>>

ChildClose ==
  /\ Deliverable
  /\ \E code \in ExitCodes : inv' = SawClose(OnClose(inv, code), code)
  /\ UNCHANGED <<arg, ret, rev, opts, pc, exited, exitCode, spawned, article, titleJa,
                 contentJa, dm, fs, writes, out, err, caught, clock>>

\* a second passes while execute awaits a child
Tick ==
  /\ Deliverable /\ pc # "run" /\ clock < MaxClock
  /\ clock' = clock + 1
  /\ UNCHANGED <<arg, ret, rev, opts, pc, exited, exitCode, inv, spawned, article,
                 titleJa, contentJa, dm, fs, writes, out, err, caught>>

Next ==
  \/ Execute_blog_dub_ja
  \/ Execute_part_000
  \/ Execute_index_1
  \/ Execute_index_2
  \/ ResumeExtract
  \/ ResumeTranslateTitle
  \/ ResumeTranslateContent
  \/ ResumeSynthesize
  \/ ChildData
  \/ ChildError
  \/ ChildClose
  \/ Tick

Spec == Init /\ [][Next]_vars

(***************************************************************************)
(* CommandRunner.run on its own: one call with any body and either capture *)
(* mode, then the child's events in any order the child can emit them.     *)
(***************************************************************************)
RunInit ==
  /\ rev = "blog_dub_ja"
  /\ opts = [url |-> TRUE, debug |-> FALSE, txt |-> FALSE, mp3 |-> FALSE]
  /\ fs = {}
  /\ pc = "harness"
  /\ arg = <<>>
  /\ ret = <<>>
  /\ InitCommon

RunCall ==
  /\ pc = "harness"
  /\ \E body \in RunBodies, captureOutput \in BOOLEAN :
       inv' = RunStart("run", body, captureOutput)
  /\ pc' = "run"
  /\ err' = Append(err, "exec")
  /\ UNCHANGED <<arg, ret, rev, opts, exited, exitCode, spawned, article, titleJa,
                 contentJa, dm, fs, writes, out, caught, clock>>

RunNext == RunCall \/ ChildData \/ ChildError \/ ChildClose

RunSpec == RunInit /\ [][RunNext]_vars

(***************************************************************************)
(* One function exercised on its own: Init draws the argument, the action  *)
(* applies the function.  The variables of the pipeline stay as they are   *)
(* after construction.                                                     *)
(***************************************************************************)
PipelineVars ==
  <<rev, opts, exited, exitCode, inv, spawned, article, titleJa, contentJa,
    dm, fs, writes, out, err, caught, clock>>

CallInit ==
  /\ rev = "blog_dub_ja"
  /\ opts = [url |-> TRUE, debug |-> FALSE, txt |-> FALSE, mp3 |-> FALSE]
  /\ fs = {}
  /\ pc = "call"
  /\ ret = <<>>
  /\ InitCommon

\* the sequences over S of length 0..n
SeqsUpTo(S, n) == UNION {[1..k -> S] : k \in 0..n}

(***************************************************************************)
(* extract on its own.  The extraction tool writes diagnostic lines, one   *)
(* JSON object, and further diagnostic lines.                              *)
(***************************************************************************)
\* the most diagnostic lines on either side of the object
MaxLines == 2

LineBoot == <<"[", "e", "n", "v", "]", " ", "b", "o", "o", "t", "i", "n", "g">>
LineTrailer == <<"t", "r", "a", "i", "l", "e", "r">>
LineBraces == <<"{", "x", "}">>
LineOpen == <<"g", "o", "t", " ", "{", " ", "\"">>
DiagLines == {LineBoot, LineTrailer, LineBraces, LineOpen}

\* the objects the tool emits: the text and the value it denotes
ObjExample ==
  [text |-> <<"{", " ", "\"", "t", "i", "t", "l", "e", "\"", ":", " ", "\"", "T", "\"",
           ",", " ", "\"", "c", "o", "n", "t", "e", "n", "t", "\"", ":",
           " ", "\"", "C", "\"", " ", "}">>,
   value |-> Obj(<<[k |-> <<"t", "i", "t", "l", "e">>, v |-> Str(<<"T">>)],
                   [k |-> <<"c", "o", "n", "t", "e", "n", "t">>, v |-> Str(<<"C">>)]>>)]
ObjArticle ==
  [text |-> <<"{", "\"", "t", "i", "t", "l", "e", "\"", ":", "\"", "T", "\"", ",",
           "\"", "c", "o", "n", "t", "e", "n", "t", "\"", ":", "\"", "C",
           "\"", ",", "\"", "d", "o", "m", "a", "i", "n", "\"", ":", "\"",
           "d", "\"", ",", "\"", "u", "r", "l", "\"", ":", "\"", "u", "\"",
           "}">>,
   value |-> Obj(<<[k |-> <<"t", "i", "t", "l", "e">>, v |-> Str(<<"T">>)],
                   [k |-> <<"c", "o", "n", "t", "e", "n", "t">>, v |-> Str(<<"C">>)],
                   [k |-> <<"d", "o", "m", "a", "i", "n">>, v |-> Str(<<"d">>)],
                   [k |-> <<"u", "r", "l">>, v |-> Str(<<"u">>)]>>)]
ObjNoTitle ==
  [text |-> <<"{", "\"", "c", "o", "n", "t", "e", "n", "t", "\"", ":", "\"", "C", "\"",
           "}">>,
   value |-> Obj(<<[k |-> <<"c", "o", "n", "t", "e", "n", "t">>, v |-> Str(<<"C">>)]>>)]
JsonObjects == {ObjExample, ObjArticle, ObjNoTitle}

ExtractOutputs ==
  [before : SeqsUpTo(DiagLines, MaxLines), json : JsonObjects,
   after : SeqsUpTo(DiagLines, MaxLines)]

\* the lines before the object, each with its newline, and the lines after
\* it, each behind a newline
Prefix(o) == Concat([k \in 1..Len(o.before) |-> o.before[k] \o <<"\n">>])
Suffix(o) == Concat([k \in 1..Len(o.after) |-> <<"\n">> \o o.after[k]])

\* everything the tool wrote to its standard output
Stdout(o) == Prefix(o) \o o.json.text \o Suffix(o)

\* extract(url, debugPath) for a child that wrote stdout and exited 0: run
\* resolves with the trimmed text, the try block recovers the object
Extract(stdout) == ExtractParse(Trim(stdout))

ExtractInit == CallInit /\ arg \in ExtractOutputs

ExtractReturns ==
  /\ pc = "call"
  /\ ret' = Extract(Stdout(arg))
  /\ pc' = "returned"
  /\ UNCHANGED arg
  /\ UNCHANGED PipelineVars

ExtractSpec == ExtractInit /\ [][ExtractReturns]_vars

(***************************************************************************)
(* translate on its own, for a non-empty text and a child that exited 0.   *)
(***************************************************************************)
\* the most lines the translation tool writes
MaxOutputLines == 3

LineJa == <<"J">>
LineBanner == Banner \o <<"1">>
LineBannerCr == Banner \o <<"1", "\r">>
LinePrefixOnly == Banner
LineIndented == <<" ">> \o Banner \o <<"1">>
LineInner == <<"J">> \o Banner \o <<"1">>
TranslateLines ==
  {LineJa, LineBanner, LineBannerCr, LinePrefixOnly, LineIndented, LineInner}

TranslateOutputs == SeqsUpTo(TranslateLines, MaxOutputLines)

\* the lines as the tool writes them, each ended by a newline
Unlines(ls) == Concat([k \in 1..Len(ls) |-> ls[k] \o <<"\n">>])

\* translate(text, debugPath) from the resolution of run: the banner lines
\* are removed from the trimmed output, the rest is trimmed again
TranslateOutput(stdout) == Trim(RemoveBanners(Trim(stdout), 1, <<>>))

TranslateInit == CallInit /\ arg \in TranslateOutputs

TranslateReturns ==
  /\ pc = "call"
  /\ ret' = TranslateOutput(Unlines(arg))
  /\ pc' = "returned"
  /\ UNCHANGED arg
  /\ UNCHANGED PipelineVars

TranslateSpec == TranslateInit /\ [][TranslateReturns]_vars

(***************************************************************************)
(* _sanitizeFilename on its own.                                           *)
(***************************************************************************)
\* the characters of the class [<>:"/\\|?*]
IllegalChars == {"<", ">", ":", "\"", "/", "\\", "|", "?", "*"}

Legal(c) == c \notin IllegalChars

\* name.replace(/[<>:"/\\|?*]+/g, '')
RemoveIllegal(s) == SelectSeq(s, Legal)

\* s.replace(/\s+/g, '_'): a match starts at a whitespace character that no
\* earlier match has consumed and runs to the end of the whitespace, so the
\* first character of every run is written as '_' and the rest of it dropped
ReplacedAt(s, p) ==
  IF ~IsWs(s[p]) THEN <<s[p]>>
  ELSE IF p > 1 /\ IsWs(s[p - 1]) THEN <<>>
  ELSE <<"_">>

\* the replacement of s[lo..hi], halving the range
RECURSIVE ReplaceWsRuns(_, _, _)
ReplaceWsRuns(s, lo, hi) ==
  IF lo > hi THEN <<>>
  ELSE IF lo = hi THEN ReplacedAt(s, lo)
  ELSE LET mid == (lo + hi) \div 2
       IN ReplaceWsRuns(s, lo, mid) \o ReplaceWsRuns(s, mid + 1, hi)

\* s.slice(0, n) for n >= 0
SliceFromStart(s, n) == SubSeq(s, 1, IF n < Len(s) THEN n ELSE Len(s))

\* the 50 of slice(0, 50)
MaxFilenameLength == 50

\* _sanitizeFilename(name)
\* (variant: the result is not cut)
SanitizeFilename_NoSlice(name) ==
  ReplaceWsRuns(RemoveIllegal(name), 1, Len(RemoveIllegal(name)))

SanitizeFilename(name) ==
  SliceFromStart(ReplaceWsRuns(RemoveIllegal(name), 1, Len(RemoveIllegal(name))),
                 MaxFilenameLength)

\* the most segments a name is put together from
MaxSegments == 3

SegMy == <<"M", "y">>
SegColonSpace == <<":", " ">>
SegTitleName == <<"T", "i", "t", "l", "e", "/", "N", "a", "m", "e", "?">>
SegBlanks == <<" ", "\t", "\n">>
SegIllegal == <<"<", ">", "\"", "\\", "|", "*">>
SegLong == [i \in 1..49 |-> "a"]
NameSegments == {SegMy, SegColonSpace, SegTitleName, SegBlanks, SegIllegal, SegLong}

Names == SeqsUpTo(NameSegments, MaxSegments)

SanitizeInit == CallInit /\ arg \in Names

SanitizeReturns ==
  /\ pc = "call"
  /\ ret' = SanitizeFilename(Concat(arg))
  /\ pc' = "returned"
  /\ UNCHANGED arg
  /\ UNCHANGED PipelineVars

SanitizeSpec == SanitizeInit /\ [][SanitizeReturns]_vars

(***************************************************************************)
(* What the claims speak about, stated from what the environment saw       *)
(* rather than from run's own bookkeeping.                                 *)
(***************************************************************************)
\* the stages with a spawn() in the log
SpawnedStages == {spawned[k].stage : k \in 1..Len(spawned)}

\* everything the awaited child wrote to its standard output
StageOutput == Concat(inv.chunks)

\* r is s without its leading and trailing whitespace
IsTrimOf(r, s) ==
  \E a \in 0..Len(s), b \in 0..Len(s) :
    /\ a + b <= Len(s)
    /\ r = SubSeq(s, a + 1, Len(s) - b)
    /\ \A i \in 1..a : IsWs(s[i])
    /\ \A i \in (Len(s) - b + 1)..Len(s) : IsWs(s[i])
    /\ r # <<>> => ~IsWs(r[1]) /\ ~IsWs(r[Len(r)])

\* s holds an opening brace followed, after optional whitespace, by a quote
HasBraceQuote(s) ==
  \E i \in 1..Len(s), j \in 1..Len(s) :
    /\ i < j
    /\ s[i] = "{"
    /\ s[j] = "\""
    /\ \A k \in (i + 1)..(j - 1) : IsWs(s[k])

HasClosingBrace(s) == \E i \in 1..Len(s) : s[i] = "}"

\* the awaited child exited non-zero or failed to start
ChildFailed == inv.spawned /\ (inv.errored \/ (inv.closed /\ inv.code # 0))

\* the extraction child exited 0 and its output cannot be parsed
ExtractionUnparseable ==
  /\ inv.stage = "extract" /\ inv.closed /\ inv.code = 0 /\ ~inv.errored
  /\ ~ExtractParse(Trim(StageOutput)).ok

\* the stage execute awaits has failed
StageFailed == ChildFailed \/ ExtractionUnparseable

(***************************************************************************)
(* C1.  Subprocesses are spawned only in the order extract, title          *)
(* translation, content translation, synthesis: the log of spawns is       *)
(* strictly increasing in stage order, every spawn after the first happens *)
(* in a step from a state whose awaited invocation has resolved, and the   *)
(* stage execute awaits only ever moves forward.                           *)
(***************************************************************************)
SpawnsInStageOrder ==
  \A i \in 1..Len(spawned), j \in 1..Len(spawned) :
    i < j => StageIndex(spawned[i].stage) < StageIndex(spawned[j].stage)

PcRank(p) ==
  CASE p \in {"init", "harness"} -> 0
    [] p = "done" -> Len(Stages) + 1
    [] OTHER -> StageIndex(p)

SpawnAfterResolve ==
  Len(spawned') > Len(spawned) =>
    /\ Len(spawned') = Len(spawned) + 1
    /\ spawned = <<>> => pc = "init" /\ spawned'[1].stage = "extract"
    /\ spawned # <<>> => inv.settled = "resolved" /\ ~inv.alive

StageEnteredOnce == pc' # pc => PcRank(pc') = PcRank(pc) + 1

C1_SequentialStages ==
  /\ [](SpawnsInStageOrder)
  /\ [][SpawnAfterResolve /\ StageEnteredOnce]_vars

\* all four stages have spawned, in order, and the job is done
C1_Witness ==
  /\ exited /\ exitCode = 0
  /\ [k \in 1..Len(spawned) |-> spawned[k].stage] = Stages

(***************************************************************************)
(* C2.  Once the awaited stage has failed (its child exited non-zero or    *)
(* failed to start, or the extraction output cannot be parsed) the next    *)
(* step ends the job with exit code 1 and spawns nothing, and an ended job *)
(* never spawns.                                                           *)
(***************************************************************************)
C2_FailFast ==
  /\ [][(~exited /\ StageFailed) =>
          (exited' /\ exitCode' = 1 /\ spawned' = spawned)]_vars
  /\ [][exited => spawned' = spawned]_vars
  /\ [](exited /\ StageFailed =>
          /\ exitCode = 1
          /\ \A k \in 1..Len(spawned) :
               StageIndex(spawned[k].stage) <= StageIndex(inv.stage))

\* the extraction child exited with code 2: one spawn, exit code 1
C2_Witness ==
  /\ exited /\ exitCode = 1
  /\ inv.stage = "extract" /\ inv.closed /\ inv.code = 2
  /\ SpawnedStages = {"extract"}

(***************************************************************************)
(* C3.  In every revision, a job with a URL whose stages all succeed ends  *)
(* with exit code 0: a job that ended with exit code 1 either had no URL   *)
(* or had a stage that failed (or a child that never exited).              *)
(***************************************************************************)
C3_SuccessExitsZero ==
  (exited /\ exitCode = 1) => (~opts.url \/ StageFailed \/ (inv.spawned /\ ~inv.closed))

(***************************************************************************)
(* C4 as stated.  The text file is written only after the synthesis stage  *)
(* has resolved.                                                           *)
(***************************************************************************)
C4_TextWrittenAfterSynthesis ==
  writes # <<>> => inv.stage = "synthesize" /\ inv.settled = "resolved"

(***************************************************************************)
(* C4 as amended.  The text file is written exactly once, in the step that *)
(* follows the content translation's resolution and enters the synthesis   *)
(* stage: it is on disk whenever the synthesis stage is awaited or over    *)
(* (also when synthesis fails), and no job that ended in an earlier stage  *)
(* has written it.                                                         *)
(***************************************************************************)
C4_TextWrittenBeforeSynthesis ==
  /\ pc \in {"synthesize", "done"} <=> writes # <<>>
  /\ writes # <<>> =>
       /\ Len(writes) = 1
       /\ writes[1].path = TextPath(rev, opts, dm)
       /\ writes[1].path \in fs
       /\ writes[1].data = TextData(titleJa, contentJa)

\* the synthesis child failed and the text file is on disk
C4_Witness ==
  /\ exited /\ exitCode = 1
  /\ inv.stage = "synthesize" /\ inv.closed /\ inv.code # 0
  /\ Len(writes) = 1 /\ writes[1].path \in fs

(***************************************************************************)
(* C5.  run: once the child has closed with a non-zero code the invocation *)
(* is rejected and no text is returned, in both capture modes and whatever *)
(* was captured; for a child that started (no 'error' event) the error is  *)
(* the exit error carrying exactly that code.                              *)
(***************************************************************************)
C5_NonZeroExitRejects ==
  (pc = "run" /\ inv.closed /\ inv.code # 0) =>
    /\ inv.settled = "rejected"
    /\ inv.value = NoValue
    /\ ~inv.errored => inv.error = ExitError(inv.code)

\* a capturing child that delivered chunks and then closed with code 2
C5_Witness ==
  /\ pc = "run" /\ inv.capture /\ Len(inv.chunks) = MaxChunks /\ ~inv.errored
  /\ inv.closed /\ inv.code = 2 /\ inv.error = ExitError(2)

(***************************************************************************)
(* C6.  run with captureOutput: once a child that started has closed with  *)
(* code 0 the invocation is resolved with the concatenation of its chunks, *)
(* in arrival order, without the leading and trailing whitespace.          *)
(***************************************************************************)
C6_CapturedResult ==
  (pc = "run" /\ inv.capture /\ inv.closed /\ inv.code = 0 /\ ~inv.errored) =>
    /\ inv.settled = "resolved"
    /\ inv.value.kind = "text"
    /\ IsTrimOf(inv.value.text, StageOutput)

\* two chunks whose concatenation had whitespace at both ends to lose
C6_Witness ==
  /\ pc = "run" /\ inv.capture /\ inv.closed /\ inv.code = 0 /\ ~inv.errored
  /\ inv.chunks = << <<" ", "a">>, <<"b", "\n">> >>
  /\ inv.value.text = <<"a", "b">>

(***************************************************************************)
(* C7.  When the awaited child emits 'error' the invocation is rejected    *)
(* with the spawn error carrying the reason of that event, and the stage   *)
(* fails: the next step is the catch block, which receives that error and  *)
(* ends the job with exit code 1.                                          *)
(***************************************************************************)
C7_SpawnErrorFailsStage ==
  /\ [](inv.errored =>
          /\ inv.settled = "rejected"
          /\ inv.error = SpawnError(inv.reason)
          /\ inv.reason \in SpawnReasons)
  /\ [][(~exited /\ inv.errored) =>
          (exited' /\ exitCode' = 1 /\ caught' = SpawnError(inv.reason)
           /\ pc' = pc /\ spawned' = spawned)]_vars

\* the content translation could not be started: EACCES reached the catch
C7_Witness ==
  /\ exited /\ exitCode = 1
  /\ inv.stage = "translateContent" /\ inv.errored /\ inv.reason = "EACCES"
  /\ caught = SpawnError("EACCES")

(***************************************************************************)
(* C8.  run: a body that is null, empty or whitespace-only is never        *)
(* written, a body with a non-whitespace character is written once, and    *)
(* stdin is ended exactly once, after the write if there is one.           *)
(***************************************************************************)
HasText(body) ==
  body.t = "string" /\ \E i \in 1..Len(body.s) : ~IsWs(body.s[i])

C9_EmptyInputSkipsSpawn ==
  /\ (pc = "translateContent" /\ ContentOf(article) = Str(<<>>)) =>
       /\ ~inv.spawned /\ inv.settled = "resolved"
       /\ inv.value = TextValue(<<>>)
  /\ (pc \in {"translateContent", "synthesize", "done"}
      /\ ContentOf(article) = Str(<<>>)) =>
       "translateContent" \notin SpawnedStages
  /\ (pc \in {"synthesize", "done"} /\ contentJa = <<>>) =>
       /\ "synthesize" \notin SpawnedStages
       /\ pc = "synthesize" => ~inv.spawned /\ inv.settled = "resolved"

\* empty content: extraction and title translation were the only spawns
C9_Witness ==
  /\ pc = "done" /\ exitCode = 0
  /\ ContentOf(article) = Str(<<>>) /\ contentJa = <<>>
  /\ SpawnedStages = {"extract", "translateTitle"}

(***************************************************************************)
(* C10.  When the extraction child has exited 0 and its output holds no    *)
(* opening brace followed (after optional whitespace) by a double quote,   *)
(* or no closing brace, the next step fails the job with the extraction's  *)
(* parse error and exit code 1, and spawns no translation.                 *)
(***************************************************************************)
BoundaryMissing ==
  /\ pc = "extract" /\ inv.closed /\ inv.code = 0 /\ ~inv.errored
  /\ ~HasBraceQuote(StageOutput) \/ ~HasClosingBrace(StageOutput)

C10_MissingBoundaryFails ==
  /\ [][(~exited /\ BoundaryMissing) =>
          (/\ exited' /\ exitCode' = 1
           /\ caught' = ExtractionFailed("JSON not found in output")
           /\ spawned' = spawned)]_vars
  /\ [](exited /\ BoundaryMissing =>
          exitCode = 1 /\ SpawnedStages = {"extract"})

\* an opening brace and quote but no closing brace: the job ended with 1
C10_Witness ==
  /\ exited /\ exitCode = 1 /\ BoundaryMissing
  /\ HasBraceQuote(StageOutput) /\ ~HasClosingBrace(StageOutput)

(***************************************************************************)
(* C11 as stated.  Whatever the diagnostic lines around the one JSON       *)
(* object are, extract returns that object.                                *)
(***************************************************************************)
C11_RecoversObject ==
  pc = "returned" => ret.ok /\ ret.v = arg.json.value

(***************************************************************************)
(* C11 as amended.  When no diagnostic line before the object holds an     *)
(* opening brace followed (after optional whitespace) by a double quote    *)
(* and no diagnostic line after it holds a closing brace, extract returns  *)
(* the object; so it does for the output "[env] booting", the object       *)
(* { "title": "T", "content": "C" }, "trailer".                            *)
(***************************************************************************)
CleanAround(o) == ~HasBraceQuote(Prefix(o)) /\ ~HasClosingBrace(Suffix(o))

ExampleOutput ==
  <<"[", "e", "n", "v", "]", " ", "b", "o", "o", "t", "i", "n", "g", "\n",
  "{", " ", "\"", "t", "i", "t", "l", "e", "\"", ":", " ", "\"", "T", "\"",
  ",", " ", "\"", "c", "o", "n", "t", "e", "n", "t", "\"", ":", " ", "\"",
  "C", "\"", " ", "}", "\n", "t", "r", "a", "i", "l", "e", "r">>

C11_RecoversObjectAmongCleanLines ==
  /\ (pc = "returned" /\ CleanAround(arg)) =>
       ret.ok /\ ret.v = arg.json.value
  /\ (pc = "returned" /\ Stdout(arg) = ExampleOutput) =>
       /\ ret.ok
       /\ GetProp(ret.v, <<"t", "i", "t", "l", "e">>) = Str(<<"T">>)
       /\ GetProp(ret.v, <<"c", "o", "n", "t", "e", "n", "t">>) = Str(<<"C">>)
       /\ Len(ret.v.m) = 2

\* the example: a bracketed line with a stray brace-free text before, the
\* object, a trailer after
C11_Witness ==
  /\ pc = "returned"
  /\ Stdout(arg) = ExampleOutput
  /\ arg.before = <<LineBoot>> /\ arg.after = <<LineTrailer>>
  /\ ret.ok /\ ret.v = ObjExample.value

(***************************************************************************)
(* Lines of a text, for the claims about the banner: a line starts at the  *)
(* first character and after every line terminator.                        *)
(***************************************************************************)
LineStarts(t) == {i \in 1..Len(t) : i = 1 \/ t[i - 1] \in LineTerminators}

\* the start of the line the position i lies in
LineStartOf(t, i) == CHOOSE j \in LineStarts(t) : j <= i /\ \A k \in j..(i - 1) : t[k] \notin LineTerminators

\* the characters of t at the positions in K between lo and hi, in order
RECURSIVE Pick(_, _, _, _)
Pick(t, K, lo, hi) ==
  IF lo > hi THEN <<>>
  ELSE IF lo = hi THEN (IF lo \in K THEN <<t[lo]>> ELSE <<>>)
  ELSE LET mid == (lo + hi) \div 2
       IN Pick(t, K, lo, mid) \o Pick(t, K, mid + 1, hi)

\* t without the text of the lines that start at a position in B (their
\* terminators stay)
WithoutLines(t, B) ==
  Pick(t, {i \in 1..Len(t) : t[i] \in LineTerminators \/ LineStartOf(t, i) \notin B},
       1, Len(t))

\* r is t with at least the lines starting in Must taken out, trimmed
LinesAbsent(r, t, Must) ==
  \E B \in SUBSET LineStarts(t) : Must \subseteq B /\ r = Trim(WithoutLines(t, B))

\* the lines of t that begin with the banner prefix, and those among them
\* where a further character of the same line follows the prefix
BannerLines(t) == {j \in LineStarts(t) : OccursAt(t, Banner, j)}
BannerLinesWithText(t) ==
  {j \in BannerLines(t) :
     j + Len(Banner) <= Len(t) /\ t[j + Len(Banner)] \notin LineTerminators}

ArticleFields ==
  {<<"t", "i", "t", "l", "e">>, <<"c", "o", "n", "t", "e", "n", "t">>,
   <<"d", "o", "m", "a", "i", "n">>, <<"u", "r", "l">>}

ExtractSucceeded == pc \in {"translateTitle", "translateContent", "synthesize", "done"}

C13_ArticleHasFields ==
  ExtractSucceeded =>
    /\ article.t = "object"
    /\ \A f \in ArticleFields : GetProp(article, f) # Undefined
    /\ TitlePrompt(article) # Str(TitleInstruction \o ToText(Undefined))
    /\ ContentOf(article) # Undefined

(***************************************************************************)
(* C14.  The primary output stream receives nothing but the audio path, at *)
(* most once, in the step that follows the resolution of the synthesis     *)
(* stage and ends the job with exit code 0; every step of execute writes   *)
(* its message to the error stream, the failure message of the catch block *)
(* and the usage message included, and a job that ended with exit code 1   *)
(* has printed no path.                                                    *)
(***************************************************************************)
C14_OnlyAudioPathOnStdout ==
  /\ [](\/ out = <<>>
        \/ /\ out = <<AudioPath(rev, opts, dm)>>
           /\ exited /\ exitCode = 0 /\ pc = "done")
  /\ [][out' # out =>
          /\ pc = "synthesize" /\ inv.stage = "synthesize"
          /\ inv.settled = "resolved"]_vars
  /\ [][(pc' # pc \/ exited' # exited) => Len(err') > Len(err)]_vars
  /\ []((exited /\ exitCode = 1) =>
          /\ out = <<>>
          /\ err[Len(err)] \in {"error", "usage"})

\* part_000 after four spawned stages: the audio path is the one line printed
C14_Witness ==
  /\ rev = "part_000" /\ exited /\ exitCode = 0
  /\ Len(spawned) = 4
  /\ out = <<spawned[4].out>>
  /\ out[1] = GenerateOutputFilename(dm, "mp3")

(***************************************************************************)
(* C15.  No step removes a path from the file system or takes back a       *)
(* write: what an earlier run left (its project directory, debug directory *)
(* and text file) and what earlier stages of this job made (the debug      *)
(* root, the text file) is still there after every step, also after a      *)
(* later stage has failed.                                                 *)
(***************************************************************************)
IsPrefix(a, b) == Len(a) <= Len(b) /\ SubSeq(b, 1, Len(a)) = a

C15_NothingDeleted ==
  /\ [][fs \subseteq fs' /\ IsPrefix(writes, writes')]_vars
  /\ [](\A k \in 1..Len(writes) : writes[k].path \in fs)
  /\ [](dm.hasDirs => dm.debugRoot \in fs)
  /\ [](dm.projectDir # NoPath => ProjectDirs \subseteq fs)

\* a rerun in the project of an earlier run, with debugging, whose synthesis
\* failed: the old debug directory and text file and the new ones are there
C15_Witness ==
  /\ rev = "blog_dub_ja" /\ opts.debug
  /\ exited /\ exitCode = 1 /\ inv.stage = "synthesize" /\ inv.closed
  /\ {OldDebug, OldText} \subseteq fs
  /\ Len(writes) = 1 /\ writes[1].path \in fs /\ writes[1].path # OldText
  /\ dm.debugRoot \in fs /\ dm.debugRoot # OldDebug

(***************************************************************************)
(* C16 as stated.  With debugging requested, the debug directory of every  *)
(* stage exists when that stage's subprocess is spawned (and from then     *)
(* on), the debug root with it.                                            *)
(***************************************************************************)
StageDebugDir(stage) == Join(dm.debugRoot, DebugSub[stage])

C16_StageDebugDirsExist ==
  opts.debug =>
    \A k \in 1..Len(spawned) :
      /\ dm.debugRoot \in fs
      /\ spawned[k].debugDir \in fs

(***************************************************************************)
(* C16 as amended.  With debugging requested, the debug root exists before *)
(* the first subprocess is spawned, and every subprocess is passed the     *)
(* path of its stage's subdirectory of that root as its debug directory;   *)
(* the pipeline creates none of the four subdirectories itself.  Without   *)
(* debugging no subprocess is passed a debug directory.                    *)
(***************************************************************************)
C16_DebugRootExistsSubdirsPassed ==
  /\ [](\A k \in 1..Len(spawned) :
          IF opts.debug
            THEN /\ dm.debugRoot \in fs
                 /\ spawned[k].debugDir = StageDebugDir(spawned[k].stage)
            ELSE spawned[k].debugDir = NoPath)
  /\ [][\A k \in 1..Len(Stages) :
          Join(dm'.debugRoot, DebugSub[Stages[k]]) \in fs' =>
            Join(dm'.debugRoot, DebugSub[Stages[k]]) \in fs]_vars

\* a debugging job on an empty file system, all four stages spawned: the root
\* is there, no stage's subdirectory is
C16_Witness ==
  /\ opts.debug /\ exited /\ exitCode = 0 /\ Len(spawned) = 4
  /\ dm.debugRoot \in fs
  /\ \A k \in 1..4 :
       /\ spawned[k].debugDir = StageDebugDir(Stages[k])
       /\ spawned[k].debugDir \notin fs

(***************************************************************************)
(* C17.  The timestamp of a job is read from the clock in                  *)
(* initializeProject and never changes afterwards; the auto-generated text *)
(* path, audio path and debug root all embed it, whatever the clock shows  *)
(* when they are used.                                                     *)
(***************************************************************************)
AutoNamed == rev \in {"blog_dub_ja", "part_000"} \/ (rev = "index_2" /\ ~opts.txt /\ ~opts.mp3)

C17_OneTimestampPerJob ==
  /\ [][dm.timestamp # 0 => dm'.timestamp = dm.timestamp]_vars
  /\ [][dm' # dm => pc = "init"]_vars
  /\ [](dm.timestamp # 0 => dm.timestamp <= clock)
  /\ [](AutoNamed =>
          /\ \A k \in 1..Len(writes) :
               writes[k].path.fts = dm.timestamp /\ dm.timestamp # 0
          /\ \A k \in 1..Len(spawned) :
               spawned[k].stage = "synthesize" =>
                 spawned[k].out.fts = dm.timestamp /\ dm.timestamp # 0
          /\ dm.hasDirs => dm.debugRoot.dts = dm.timestamp /\ dm.timestamp # 0)

\* a debugging job that took longer than a second: the clock has moved on,
\* the three paths carry the timestamp of the start
C17_Witness ==
  /\ rev = "blog_dub_ja" /\ opts.debug /\ exited /\ exitCode = 0
  /\ clock > dm.timestamp /\ dm.timestamp # 0
  /\ Len(writes) = 1 /\ writes[1].path.fts = dm.timestamp
  /\ Len(spawned) = 4 /\ spawned[4].out.fts = dm.timestamp
  /\ dm.debugRoot.dts = dm.timestamp

(***************************************************************************)
(* C18.  For every name, _sanitizeFilename returns a text of at most 50    *)
(* characters without any of < > : " / \ | ? * and without whitespace: the *)
(* name with the illegal characters taken out, every run of whitespace of  *)
(* what is left turned into one underscore, cut after 50 characters; for   *)
(* "My: Title/Name?" that is "My_TitleName".                               *)
(***************************************************************************)
\* t with every whitespace character written as an underscore
Underscored(t) == [j \in 1..Len(t) |-> IF IsWs(t[j]) THEN "_" ELSE t[j]]

\* the positions of t that are not whitespace or are the first of a run of it
RunHeads(t) == {j \in 1..Len(t) : ~IsWs(t[j]) \/ j = 1 \/ ~IsWs(t[j - 1])}

IsSanitized(r, name) ==
  LET legal == Pick(name, {i \in 1..Len(name) :
                             name[i] \notin {"<", ">", ":", "\"", "/", "\\", "|", "?", "*"}},
                    1, Len(name))
      joined == Pick(Underscored(legal), RunHeads(legal), 1, Len(legal))
  IN r = SubSeq(joined, 1, IF Len(joined) < 50 THEN Len(joined) ELSE 50)

C18_SanitizedName ==
  pc = "returned" =>
    /\ Len(ret) <= 50
    /\ \A i \in 1..Len(ret) :
         /\ ret[i] \notin {"<", ">", ":", "\"", "/", "\\", "|", "?", "*"}
         /\ ~IsWs(ret[i])
    /\ IsSanitized(ret, Concat(arg))
    /\ Concat(arg) = <<"M", "y", ":", " ", "T", "i", "t", "l", "e", "/", "N", "a", "m", "e",
         "?">> =>
         ret = <<"M", "y", "_", "T", "i", "t", "l", "e", "N", "a", "m", "e">>

\* the example of the specification
C18_Example ==
  /\ pc = "returned"
  /\ arg = <<SegMy, SegColonSpace, SegTitleName>>
  /\ ret = <<"M", "y", "_", "T", "i", "t", "l", "e", "N", "a", "m", "e">>

\* a name of 101 characters, a run of three whitespace characters in its
\* middle: the run is one underscore, the result is cut right after it
C18_Witness ==
  /\ pc = "returned"
  /\ arg = <<SegLong, SegBlanks, SegLong>>
  /\ Len(Concat(arg)) = 101
  /\ Len(ret) = 50 /\ ret[50] = "_" /\ ret[49] = "a"

BoundaryMessage ==
    <<"E", "x", "t", "r", "a", "c", "t", "i", "o", "n", " ", "f", "a", "i",
  "l", "e", "d", ":", " ", "J", "S", "O", "N", " ", "n", "o", "t", " ",
  "f", "o", "u", "n", "d", " ", "i", "n", " ", "o", "u", "t", "p", "u",
  "t">>

\* sub occurs in text
Contains(text, sub) == \E i \in 1..(Len(text) + 1) : OccursAt(text, sub, i)

C20_ErrorCarriesRawOutput ==
  (exited /\ pc = "extract" /\ inv.settled = "resolved"
   /\ caught = ExtractionFailed("JSON not found in output")) =>
    Contains(BoundaryMessage, inv.value.text)

(***************************************************************************)
(* C21.  When the extraction child has exited 0 and its output holds both  *)
(* boundaries, the text given to JSON.parse is the span of the captured    *)
(* output from the first opening brace followed (after optional            *)
(* whitespace) by a double quote to the last closing brace, both included: *)
(* it begins with an opening brace and ends with a closing brace, wherever *)
(* the last closing brace lies.                                            *)
(***************************************************************************)
BothBoundaries ==
  /\ pc = "extract" /\ inv.closed /\ inv.code = 0 /\ ~inv.errored
  /\ HasBraceQuote(StageOutput) /\ HasClosingBrace(StageOutput)

C21_ParsedTextIsInclusiveSpan ==
  BothBoundaries =>
    LET rawOutput == inv.value.text
        text == JsonText(rawOutput)
    IN /\ text = SubSeq(rawOutput, MatchBraceQuote(rawOutput) + 1,
                        LastIndexOf(rawOutput, "}") + 1)
       /\ text # <<>>
       /\ text[1] = "{"
       /\ text[Len(text)] = "}"

(***************************************************************************)
(* C22.  A job has at most one child running: execute holds one            *)
(* invocation at a time, and a spawn happens only in a step from a state   *)
(* whose awaited child is not running.  Each of the four stages spawns at  *)
(* most once per job, so there are at most four spawns, at most two of     *)
(* them translations; and once the awaited child has failed nothing is     *)
(* spawned any more, the failed command least of all.                      *)
(***************************************************************************)
SpawnCount(stage) ==
  Cardinality({k \in 1..Len(spawned) : spawned[k].stage = stage})

OneSpawnPerStage ==
  /\ \A k \in 1..Len(Stages) : SpawnCount(Stages[k]) <= 1
  /\ SpawnedStages \subseteq {Stages[k] : k \in 1..Len(Stages)}
  /\ Len(spawned) <= Len(Stages)
  /\ SpawnCount("translateTitle") + SpawnCount("translateContent") <= 2

SpawnsWhileNoneRuns ==
  Len(spawned') > Len(spawned) =>
    /\ ~inv.alive
    /\ Len(spawned') = Len(spawned) + 1
    /\ inv'.spawned /\ inv'.alive
    /\ spawned'[Len(spawned')].stage = inv'.stage

NoRetry == ChildFailed => spawned' = spawned

C22_OneAttemptPerStage ==
  /\ [](OneSpawnPerStage)
  /\ [][SpawnsWhileNoneRuns /\ NoRetry]_vars

\* the synthesis child is running: it is the fourth spawn, the other three
\* children have closed
C22_Witness ==
  /\ pc = "synthesize" /\ inv.alive /\ ~exited
  /\ Len(spawned) = 4
  /\ \A k \in 1..Len(Stages) : SpawnCount(Stages[k]) = 1

(***************************************************************************)
(* The pipeline under fair scheduling.  Every child that run is waiting    *)
(* for eventually emits 'error' or 'close': weak fairness of those two     *)
(* events.  The event loop runs execute, and every continuation whose      *)
(* promise is settled: weak fairness of the four Execute and the four      *)
(* Resume actions.  Each of these is enabled exactly when execute stands   *)
(* at its place with nothing to wait for (Runnable), at most one of them   *)
(* at a time, and every step of them leaves that place or ends the job, so *)
(* their weak fairness is the formula []<>~Runnable; it is written that    *)
(* way because enabledness is then read off the state without running the  *)
(* JSON parser and the banner filter.  Time and the child's output are     *)
(* under no obligation.                                                    *)
(***************************************************************************)
\* execute has a step to take: it has not started, or the promise it awaits
\* is settled
Runnable ==
  /\ ~exited
  /\ \/ pc = "init"
     \/ pc \in {Stages[k] : k \in 1..Len(Stages)} /\ Settled(inv)

LiveSpec ==
  /\ Init
  /\ [][Next]_vars
  /\ WF_vars(ChildError \/ ChildClose)
  /\ []<>(~Runnable)

\* a child that started and has not closed: spawned, no 'error', no 'close'
ChildRunning == inv.spawned /\ ~inv.closed /\ ~inv.errored

\* the job stays where it is: same stage, not ended, nothing spawned,
\* written or printed
JobWaits ==
  /\ pc' = pc /\ exited' = exited /\ exitCode' = exitCode
  /\ spawned' = spawned /\ writes' = writes /\ out' = out

(***************************************************************************)
(* C23.  When every awaited child eventually emits 'close' or 'error' the  *)
(* job eventually ends, with exit code 0 or 1, and stays ended.  While a   *)
(* child that started has not closed, the job takes no step of its own,    *)
(* however much time passes: a child that never closes keeps the job in    *)
(* its stage and alive for ever.                                           *)
(***************************************************************************)
C23_TerminatesUnlessChildHangs ==
  /\ <>(exited /\ exitCode \in {0, 1})
  /\ [][exited => exited' /\ exitCode' = exitCode]_vars
  /\ [][(~exited /\ ChildRunning) => JobWaits]_vars

(***************************************************************************)
(* The same with the child's stdin taken into account: the job waits for a *)
(* running child whose stdin run has ended.  This holds; what is left out  *)
(* is the child run spawned and then threw over, before child.stdin.end(). *)
(***************************************************************************)
ChildPending ==
  /\ ChildRunning
  /\ inv.stdin # <<>> /\ inv.stdin[Len(inv.stdin)].op = "end"

TerminatesUnlessFedChildHangs ==
  /\ <>(exited /\ exitCode \in {0, 1})
  /\ [][exited => exited' /\ exitCode' = exitCode]_vars
  /\ [][(~exited /\ ChildPending) => JobWaits]_vars

(***************************************************************************)
(* C24.  run: an invocation settles once.  From the moment the promise is  *)
(* settled no later event changes its state, its value or its error; in    *)
(* particular, once the child has emitted 'error' and then 'close', with   *)
(* code 0 or any other, the invocation is still rejected with the spawn    *)
(* error of the 'error' event and has no value.                            *)
(***************************************************************************)
SettledStays ==
  inv.settled # "pending" =>
    /\ inv'.settled = inv.settled
    /\ inv'.value = inv.value
    /\ inv'.error = inv.error

C24_SettlesOnce ==
  /\ [](pc = "run" /\ inv.errored /\ inv.closed =>
          /\ inv.settled = "rejected"
          /\ inv.error = SpawnError(inv.reason)
          /\ inv.value = NoValue)
  /\ [][SettledStays]_vars

\* a capturing child that emitted 'error', then output, then 'close' with
\* code 0: the spawn error stands
C24_Witness ==
  /\ pc = "run" /\ inv.capture /\ inv.errored /\ inv.reason = "ENOENT"
  /\ inv.chunks # <<>> /\ inv.closed /\ inv.code = 0
  /\ inv.settled = "rejected" /\ inv.error = SpawnError("ENOENT")

(***************************************************************************)
(* C25.  Once the extraction has succeeded (its child exited 0, the output *)
(* parsed, the title of the value was read and logged), the next step      *)
(* spawns the title translation and writes to its stdin the instruction    *)
(* followed by the title as text, whatever the title is: empty and missing *)
(* titles included.  No job gets past the title stage without that spawn,  *)
(* while the content translation is not spawned for empty content.         *)
(***************************************************************************)
ExtractionDone ==
  /\ pc = "extract" /\ ~exited
  /\ inv.closed /\ inv.code = 0 /\ ~inv.errored
  /\ ExtractParse(Trim(StageOutput)).ok
  /\ CanRead(ExtractParse(Trim(StageOutput)).v)

TitleOf(a) == GetProp(a, <<"t", "i", "t", "l", "e">>)

TitleSpawned ==
  /\ pc' = "translateTitle"
  /\ inv'.spawned /\ inv'.alive /\ inv'.stage = "translateTitle"
  /\ spawned' = Append(spawned, SpawnEntry("translateTitle", dm, NoPath))
  /\ inv'.stdin = <<[op |-> "write", body |-> TitleInstruction \o ToText(TitleOf(article'))],
                    [op |-> "end", body |-> <<>>]>>

C25_TitleAlwaysTranslated ==
  /\ [][ExtractionDone => TitleSpawned]_vars
  /\ [](pc \in {"translateTitle", "translateContent", "synthesize", "done"} =>
          /\ "translateTitle" \in SpawnedStages
          /\ pc = "translateTitle" => inv.spawned)
  /\ [](pc = "translateContent" /\ ~Truthy(ContentOf(article)) => ~inv.spawned)

\* an article without a title: the title translation runs, fed the
\* instruction and the word undefined
C25_Witness ==
  /\ pc = "translateTitle" /\ inv.alive
  /\ TitleOf(article) = Undefined
  /\ inv.stdin[1].body = TitleInstruction \o <<"u", "n", "d", "e", "f", "i", "n", "e", "d">>

(***************************************************************************)
(* C26.  When the translated content is empty (the article body was empty  *)
(* and no translation ran, or the translation's output is empty once the   *)
(* banner lines are removed and the rest is trimmed), the step after the   *)
(* content translation writes the text file and spawns nothing, the step   *)
(* after that reports the paths, prints the audio path where the revision  *)
(* prints it, and ends the job with exit code 0; no audio file exists at   *)
(* that path.                                                              *)
(***************************************************************************)
EmptyTranslation ==
  /\ pc = "translateContent" /\ ~exited
  /\ inv.settled = "resolved" /\ TranslateResult(inv) = <<>>

TextWrittenNoSynthesis ==
  /\ pc' = "synthesize" /\ ~exited'
  /\ contentJa' = <<>>
  /\ writes' = Append(writes, [path |-> TextPath(rev, opts, dm),
                               data |-> TextData(titleJa, <<>>)])
  /\ TextPath(rev, opts, dm) \in fs'
  /\ spawned' = spawned
  /\ ~inv'.spawned /\ inv'.settled = "resolved"

ReportedDone ==
  /\ pc' = "done" /\ exited' /\ exitCode' = 0
  /\ err' = err \o <<"done", "paths">>
  /\ out' = IF PrintsAudioPath(rev) THEN Append(out, AudioPath(rev, opts, dm)) ELSE out
  /\ spawned' = spawned

C26_EmptyContentStillSucceeds ==
  /\ [][EmptyTranslation => TextWrittenNoSynthesis]_vars
  /\ [][(pc = "synthesize" /\ ~exited /\ contentJa = <<>>) => ReportedDone]_vars
  /\ [](pc = "done" /\ contentJa = <<>> =>
          /\ exited /\ exitCode = 0
          /\ Len(writes) = 1
          /\ "synthesize" \notin SpawnedStages
          /\ AudioPath(rev, opts, dm) \notin fs
          /\ out = IF PrintsAudioPath(rev) THEN <<AudioPath(rev, opts, dm)>> ELSE <<>>)

\* the content translation ran and left nothing after filtering: the job
\* of a printing revision ended with 0, the audio path on its output
C26_Witness ==
  /\ pc = "done" /\ exited /\ exitCode = 0 /\ rev = "part_000"
  /\ Truthy(ContentOf(article)) /\ contentJa = <<>>
  /\ SpawnedStages = {"extract", "translateTitle", "translateContent"}
  /\ out = <<AudioPath(rev, opts, dm)>>
  /\ Len(writes) = 1 /\ writes[1].data = TextData(titleJa, <<>>)

====
